---- MODULE Spec2Model ----
(***************************************************************************)
(* Live capture -> streaming recognition -> incremental log pipeline of    *)
(* scripts/usb_audio_stt_translate.py (AudioStreamer,                      *)
(* SpeechToTextTranslator and the __main__ block).                         *)
(*                                                                         *)
(* Execution contexts:                                                     *)
(*   main      the interpreter's main thread running __main__:             *)
(*             start_stream, process_stream, stop_stream;                  *)
(*   callback  the audio subsystem's thread invoking _audio_callback;      *)
(*   sender    the RPC library's thread pulling request_generator /        *)
(*             audio_generator;                                            *)
(*   recognizer, translator, operator: the environment.                    *)
(***************************************************************************)
EXTENDS Naturals, Sequences, FiniteSets

\* ---------------------------------------------------------------- bounds
\* Frames the audio device delivers in one run.
MaxFrames == 2
\* Recognition results (interim or final) the recognizer emits in one run.
MaxEvents == 2
\* Results carried by one streaming response.
MaxResults == 2
\* Operator interrupts (Ctrl+C) delivered in one run.
MaxInterrupts == 1
\* Audio devices the machine has.
MaxDevices == 3
\* process_stream calls a caller makes on one translator object.
MaxCalls == 2
\* server.js: requests that arrive in one run.
MaxRequests == 3

VARIABLES
    mainPc,            \* position of the main thread
    exc,               \* exception propagating in the main thread
    exitCode,          \* process exit status once mainPc = "exit"
    interrupts,        \* operator interrupts delivered so far
    atInterrupt,       \* history: final results in flight when the interrupt hit the loop
    translate_enabled, \* process_stream argument
    save_to_file,      \* process_stream argument
    is_recording,      \* AudioStreamer.is_recording
    stream,            \* AudioStreamer.stream: "none" (no attribute), "open", "closed"
    terminated,        \* audio.terminate() has run
    audio_queue,       \* AudioStreamer.audio_queue (queue.Queue(), unbounded FIFO)
    captured,          \* frames handed to _audio_callback so far
    cbPc,              \* position of the callback thread
    enqueued,          \* history: frames put on audio_queue, in order
    genPc,             \* position of audio_generator
    yielded,           \* history: frames yielded by audio_generator, in order
    silence,           \* history: "none", "timeout" (a dequeue timed out),
                       \* "resumed" (a frame was yielded after a timeout)
    rpc,               \* streaming_recognize call: "none", "open"
    rpcEnd,            \* how the response stream ends: "none", "error", "closed"
    responses,         \* responses in flight, not yet taken by the for loop
    emitted,           \* results emitted by the recognizer so far
    curResults,        \* response.results still to be iterated
    transcript,        \* local transcript
    translation,       \* local translation
    segment_count,     \* local segment_count
    finalsRecv,        \* history: transcripts of the final results received
    console,           \* history: what was printed for final results
    translateFailed,   \* history: transcripts for which the translator raised
    output_file,       \* self.output_file: "none" (None), "open", "closed"
    buf,               \* bytes written to the file object, not yet flushed
    disk,              \* bytes of the log file visible to other readers
    calls,             \* process_stream calls made on the translator object so far
    device_arg,        \* AudioStreamer(device_index=...): None or Index(i)
    devices,           \* names of the audio devices, by index
    device_index,      \* self.device_index: None or Index(i)
    searched,          \* _find_usb_device has been run
    ctorPc,            \* position in AudioStreamer.__init__
    book,              \* server.js: the Book document
    loans,             \* server.js: the book's Loan documents, by creation order
    checkouts,         \* server.js: the book's Checkout documents, by creation order
    req,               \* server.js: the requests, by arrival order
    overlap            \* history: two requests were in progress at the same time

pipeVars == << mainPc, exc, exitCode, interrupts, atInterrupt, translate_enabled, save_to_file,
               is_recording, stream, terminated, audio_queue, captured, cbPc,
               enqueued, genPc, yielded, silence, rpc, rpcEnd, responses, emitted,
               curResults, transcript, translation, segment_count, finalsRecv,
               console, translateFailed, output_file, buf, disk >>
ctorVars == << device_arg, devices, device_index, searched, ctorPc >>
srvVars == << book, loans, checkouts, req, overlap >>
\* what the steps of one run of the script leave alone
extVars == << calls, ctorVars, srvVars >>
vars == << pipeVars, extVars >>

mainVars == << mainPc, exc, exitCode >>
argVars == << translate_enabled, save_to_file >>
devVars == << stream, terminated >>
cbVars == << captured, cbPc, enqueued >>
genVars == << genPc, yielded, silence >>
rpcVars == << rpc, rpcEnd, responses, emitted >>
intVars == << interrupts, atInterrupt >>
loopVars == << curResults, transcript, translation, segment_count, finalsRecv,
              console, translateFailed >>
fileVars == << output_file, buf, disk >>

\* ------------------------------------------------------------ log records
NoText == << "none", 0 >>
\* result['translatedText'] of the translator for transcript t
TranslatedText(t) == << "translated", t >>
\* f"[Translation error: {e}]"
TranslationError(t) == << "[Translation error", t >>

Header == [kind |-> "header", n |-> 0, original |-> 0, translation |-> NoText]
\* "[ts] Segment n / Original (src): t / Translation (tgt): tr / -----"
SegmentEntry(n, t, tr) ==
    [kind |-> "segment", n |-> n, original |-> t, translation |-> tr]
\* "[ts] t"
PlainEntry(t) == [kind |-> "plain", n |-> 0, original |-> t, translation |-> NoText]
\* "==== / Session ended: now / Total segments: n"
Trailer(n) == [kind |-> "trailer", n |-> n, original |-> 0, translation |-> NoText]

Running == mainPc # "exit"

\* the script's own state when __main__ enters its try block
PipeStart ==
    /\ mainPc = "start_flag"
    /\ exc = "none"
    /\ exitCode = 0
    /\ interrupts = 0
    /\ atInterrupt = {}
    /\ is_recording = FALSE
    /\ stream = "none"
    /\ terminated = FALSE
    /\ audio_queue = << >>
    /\ captured = 0
    /\ cbPc = "idle"
    /\ enqueued = << >>
    /\ genPc = "idle"
    /\ yielded = << >>
    /\ silence = "none"
    /\ rpc = "none"
    /\ rpcEnd = "none"
    /\ responses = << >>
    /\ emitted = 0
    /\ curResults = << >>
    /\ transcript = 0
    /\ translation = NoText
    /\ segment_count = 0
    /\ finalsRecv = << >>
    /\ console = << >>
    /\ translateFailed = {}
    /\ output_file = "none"
    /\ buf = << >>
    /\ disk = << >>
    /\ calls = 0

\* a device index value: Python's None, or the integer i
None == [given |-> FALSE, index |-> 0]
Index(i) == [given |-> TRUE, index |-> i]

\* streamer = AudioStreamer(): no index given, the device search has run
\* (and found nothing on a machine without a matching device)
CtorDone ==
    /\ device_arg = None
    /\ devices = << >>
    /\ device_index = None
    /\ searched = TRUE
    /\ ctorPc = "done"

Reqs == 1..MaxRequests

\* a request slot: kind "none" until the request arrives
NoRequest ==
    [kind |-> "none", pc |-> "idle", body |-> "null", id |-> 0, nl |-> 0, nc |-> 0,
     cl |-> FALSE, cc |-> FALSE, code |-> 0]

\* server.js: one book in the collection, not checked out, never lent
SrvIdle ==
    /\ book = [exists |-> TRUE, checkoutDate |-> "null"]
    /\ loans = << >>
    /\ checkouts = << >>
    /\ req = [r \in Reqs |-> NoRequest]
    /\ overlap = FALSE

Init ==
    /\ PipeStart
    /\ translate_enabled \in BOOLEAN
    /\ save_to_file \in BOOLEAN
    /\ CtorDone
    /\ SrvIdle

\* ------------------------------------------------- main thread: start_stream
\* self.is_recording = True
StartFlag ==
    /\ mainPc = "start_flag"
    /\ is_recording' = TRUE
    /\ mainPc' = "start_open"
    /\ UNCHANGED << extVars, exc, exitCode, intVars, argVars, devVars, audio_queue,
                    cbVars, genVars, rpcVars, loopVars, fileVars >>

\* self.stream = self.audio.open(..., stream_callback=...); start_stream()
StartOpen ==
    /\ mainPc = "start_open"
    /\ stream' = "open"
    /\ mainPc' = "ps_open"
    /\ UNCHANGED << extVars, exc, exitCode, intVars, argVars, is_recording, terminated,
                    audio_queue, cbVars, genVars, rpcVars, loopVars, fileVars >>

\* the failure to open the device swallowed: the program goes on to
\* process_stream without a stream
StartOpenFails_continues ==
    /\ mainPc = "start_open"
    /\ exc' = "Exception"
    /\ mainPc' = "ps_open"
    /\ UNCHANGED << extVars, exitCode, intVars, argVars, is_recording, devVars,
                    audio_queue, cbVars, genVars, rpcVars, loopVars, fileVars >>

\* self.audio.open raises (device busy, not found): no self.stream is stored and
\* the exception, which __main__ does not catch, runs __main__'s finally.
StartOpenFails ==
    /\ mainPc = "start_open"
    /\ exc' = "Exception"
    /\ mainPc' = "stop_flag"
    /\ UNCHANGED << extVars, exitCode, intVars, argVars, is_recording, devVars,
                    audio_queue, cbVars, genVars, rpcVars, loopVars, fileVars >>

\* ---------------------------------------------- main thread: process_stream
\* if save_to_file: self.output_file = open(output_filename, 'w')
OpenLog ==
    /\ mainPc = "ps_open"
    /\ IF save_to_file
         THEN /\ output_file' = "open"
              /\ buf' = << >>
              /\ disk' = << >>
              /\ mainPc' = "ps_header"
         ELSE /\ UNCHANGED fileVars
              /\ mainPc' = "ps_call"
    /\ UNCHANGED << extVars, exc, exitCode, intVars, argVars, is_recording, devVars,
                    audio_queue, cbVars, genVars, rpcVars, loopVars >>

\* the six header writes
WriteHeader ==
    /\ mainPc = "ps_header"
    /\ buf' = Append(buf, Header)
    /\ mainPc' = "ps_hflush"
    /\ UNCHANGED << extVars, exc, exitCode, intVars, argVars, is_recording, devVars,
                    audio_queue, cbVars, genVars, rpcVars, loopVars,
                    output_file, disk >>

\* self.output_file.flush()
FlushHeader ==
    /\ mainPc = "ps_hflush"
    /\ disk' = disk \o buf
    /\ buf' = << >>
    /\ mainPc' = "ps_call"
    /\ UNCHANGED << extVars, exc, exitCode, intVars, argVars, is_recording, devVars,
                    audio_queue, cbVars, genVars, rpcVars, loopVars, output_file >>

\* segment_count = 0; responses = streaming_recognize(config, request_generator())
\* The RPC library starts pulling request_generator on its own thread.
StreamingRecognize ==
    /\ mainPc = "ps_call"
    /\ segment_count' = 0
    /\ rpc' = "open"
    /\ genPc' = "check"
    /\ mainPc' = "ps_next"
    /\ UNCHANGED << extVars, translateFailed, exc, exitCode, intVars, argVars, is_recording, devVars,
                    audio_queue, cbVars, yielded, silence, rpcEnd, responses, emitted,
                    curResults, transcript, translation, finalsRecv, console,
                    fileVars >>

\* for response in responses: the next response in arrival order
NextResponse ==
    /\ mainPc = "ps_next"
    /\ responses # << >>
    /\ curResults' = Head(responses)
    /\ responses' = Tail(responses)
    /\ mainPc' = "ps_result"
    /\ UNCHANGED << extVars, translateFailed, exc, exitCode, intVars, argVars, is_recording, devVars,
                    audio_queue, cbVars, genVars, rpc, rpcEnd, emitted,
                    transcript, translation, segment_count, finalsRecv, console,
                    fileVars >>

\* the error escaping process_stream without its except and finally clauses
ResponsesRaise_crash ==
    /\ mainPc = "ps_next"
    /\ responses = << >>
    /\ rpcEnd = "error"
    /\ exc' = "Exception"
    /\ mainPc' = "stop_flag"
    /\ UNCHANGED << extVars, exitCode, intVars, argVars, is_recording, devVars,
                    audio_queue, cbVars, genVars, rpcVars, loopVars, fileVars >>

\* the error answered by starting the call over inside the loop
ResponsesRaise_retry ==
    /\ mainPc = "ps_next"
    /\ responses = << >>
    /\ rpcEnd = "error"
    /\ rpcEnd' = "none"
    /\ UNCHANGED << extVars, mainVars, intVars, argVars, is_recording, devVars,
                    audio_queue, cbVars, genVars, rpc, responses, emitted,
                    loopVars, fileVars >>

\* the error ignored inside the loop, which keeps waiting for a response
ResponsesRaise_ignored ==
    /\ mainPc = "ps_next"
    /\ responses = << >>
    /\ rpcEnd = "error"
    /\ mainPc' = "ps_next"
    /\ UNCHANGED << extVars, exc, exitCode, intVars, argVars, is_recording, devVars,
                    audio_queue, cbVars, genVars, rpcVars, loopVars, fileVars >>

\* the error answered by calling streaming_recognize again with a new
\* request_generator()
ResponsesRaise_recalls ==
    /\ mainPc = "ps_next"
    /\ responses = << >>
    /\ rpcEnd = "error"
    /\ mainPc' = "ps_call"
    /\ UNCHANGED << extVars, exc, exitCode, intVars, argVars, is_recording, devVars,
                    audio_queue, cbVars, genVars, rpcVars, loopVars, fileVars >>

\* the except clause stopping capture itself before the finally block runs
ResponsesRaise_stops ==
    /\ mainPc = "ps_next"
    /\ responses = << >>
    /\ rpcEnd = "error"
    /\ is_recording' = FALSE
    /\ mainPc' = "ps_finally"
    /\ UNCHANGED << extVars, exc, exitCode, intVars, argVars, devVars,
                    audio_queue, cbVars, genVars, rpcVars, loopVars, fileVars >>

\* the response iterator raises once the delivered responses are used up;
\* except Exception as e: print(...) and fall into the finally block
ResponsesRaise ==
    /\ mainPc = "ps_next"
    /\ responses = << >>
    /\ rpcEnd = "error"
    /\ mainPc' = "ps_finally"
    /\ UNCHANGED << extVars, exc, exitCode, intVars, argVars, is_recording, devVars,
                    audio_queue, cbVars, genVars, rpcVars, loopVars, fileVars >>

\* for result in response.results: exhausted
EndOfResults ==
    /\ mainPc = "ps_result"
    /\ curResults = << >>
    /\ mainPc' = "ps_next"
    /\ UNCHANGED << extVars, exc, exitCode, intVars, argVars, is_recording, devVars,
                    audio_queue, cbVars, genVars, rpcVars, loopVars, fileVars >>

\* the counter left as it was
NextCount_same(count) == count

\* if result.is_final: segment_count += 1
NextCount(count) == count + 1

\* a final result: count it, print the original
FinalResult ==
    /\ mainPc = "ps_result"
    /\ curResults # << >>
    /\ Head(curResults).is_final
    /\ curResults' = Tail(curResults)
    /\ transcript' = Head(curResults).transcript
    /\ segment_count' = NextCount(segment_count)
    /\ finalsRecv' = Append(finalsRecv, Head(curResults).transcript)
    /\ console' = Append(console, << "Original", Head(curResults).transcript >>)
    /\ mainPc' = IF translate_enabled THEN "ps_translate" ELSE "ps_write"
    /\ UNCHANGED << extVars, translateFailed, exc, exitCode, intVars, argVars, is_recording, devVars,
                    audio_queue, cbVars, genVars, rpcVars, translation, fileVars >>

\* an interim result handled like a final one (no is_final test)
InterimResult_commits ==
    /\ mainPc = "ps_result"
    /\ curResults # << >>
    /\ ~ Head(curResults).is_final
    /\ curResults' = Tail(curResults)
    /\ transcript' = Head(curResults).transcript
    /\ segment_count' = NextCount(segment_count)
    /\ mainPc' = IF translate_enabled THEN "ps_translate" ELSE "ps_write"
    /\ UNCHANGED << extVars, exc, exitCode, intVars, argVars, is_recording, devVars,
                    audio_queue, cbVars, genVars, rpcVars, translation,
                    finalsRecv, console, translateFailed, fileVars >>

\* an interim result: print(f"... {transcript}", end='\r')
InterimResult ==
    /\ mainPc = "ps_result"
    /\ curResults # << >>
    /\ ~ Head(curResults).is_final
    /\ curResults' = Tail(curResults)
    /\ transcript' = Head(curResults).transcript
    /\ UNCHANGED << extVars, translateFailed, mainVars, intVars, argVars, is_recording, devVars,
                    audio_queue, cbVars, genVars, rpcVars, translation,
                    segment_count, finalsRecv, console, fileVars >>

\* translate_text answering with nothing when the translator raises
translate_text_empty(text, ok) ==
    IF ok THEN TranslatedText(text) ELSE NoText

\* translate_text: the translator's answer, or the marker when it raises
translate_text(text, ok) ==
    IF ok THEN TranslatedText(text) ELSE TranslationError(text)

\* translate_text letting the translator's exception through: it reaches
\* process_stream's "except Exception" and ends the loop
Translate_raises ==
    /\ mainPc = "ps_translate"
    /\ \E ok \in BOOLEAN :
         /\ translation' = IF ok THEN translate_text(transcript, ok) ELSE translation
         /\ console' = IF ok
                         THEN Append(console, << "Translated", translate_text(transcript, ok) >>)
                         ELSE console
         /\ translateFailed' = IF ok THEN translateFailed
                                     ELSE translateFailed \cup {transcript}
         /\ mainPc' = IF ok THEN "ps_write" ELSE "ps_finally"
    /\ UNCHANGED << extVars, exc, exitCode, intVars, argVars, is_recording, devVars,
                    audio_queue, cbVars, genVars, rpcVars, curResults, transcript,
                    segment_count, finalsRecv, fileVars >>

\* the translator asked twice for one final result
Translate_twice ==
    /\ mainPc = "ps_translate"
    /\ \E ok \in BOOLEAN :
         /\ translation' = translate_text(transcript, ok)
         /\ console' = Append(Append(console, << "Translated", translate_text(transcript, ok) >>),
                              << "Translated", translate_text(transcript, ok) >>)
         /\ translateFailed' = IF ok THEN translateFailed
                                     ELSE translateFailed \cup {transcript}
    /\ mainPc' = "ps_write"
    /\ UNCHANGED << extVars, exc, exitCode, intVars, argVars, is_recording, devVars,
                    audio_queue, cbVars, genVars, rpcVars, curResults, transcript,
                    segment_count, finalsRecv, fileVars >>

\* translation = self.translate_text(transcript); print the translation
Translate ==
    /\ mainPc = "ps_translate"
    /\ \E ok \in BOOLEAN :
         /\ translation' = translate_text(transcript, ok)
         /\ console' = Append(console, << "Translated", translate_text(transcript, ok) >>)
         /\ translateFailed' = IF ok THEN translateFailed
                                     ELSE translateFailed \cup {transcript}
    /\ mainPc' = "ps_write"
    /\ UNCHANGED << extVars, exc, exitCode, intVars, argVars, is_recording, devVars,
                    audio_queue, cbVars, genVars, rpcVars, curResults, transcript,
                    segment_count, finalsRecv, fileVars >>

\* the entry process_stream writes for the current final result
LogEntry ==
    IF translate_enabled
      THEN SegmentEntry(segment_count, transcript, translation)
      ELSE PlainEntry(transcript)

\* if self.output_file: the writes of one entry.  A file object is true
\* whether open or closed; write on a closed one raises ValueError, which
\* the except Exception clause reports before the finally block runs.
WriteSegment ==
    /\ mainPc = "ps_write"
    /\ CASE output_file = "open" ->
              /\ buf' = Append(buf, LogEntry)
              /\ mainPc' = "ps_flush"
              /\ UNCHANGED console
         [] output_file = "closed" ->
              /\ UNCHANGED << buf, console >>
              /\ mainPc' = "ps_finally"
         [] OTHER ->
              /\ UNCHANGED buf
              /\ mainPc' = "ps_result"
              /\ console' = Append(console, << "Rule", transcript >>)
    /\ UNCHANGED << extVars, translateFailed, exc, exitCode, intVars, argVars, is_recording, devVars,
                    audio_queue, cbVars, genVars, rpcVars, curResults, transcript,
                    translation, segment_count, finalsRecv, output_file, disk >>

\* written text placed at the start of the file instead of its end
Flushed_front(d, b) == b \o d

\* a flush that leaves the written text in the file object's buffer
Flushed_not(d, b) == d

\* self.output_file.flush(): what was written becomes the file's content
Flushed(d, b) == d \o b

\* self.output_file.flush(); print("-" * 60)
FlushSegment ==
    /\ mainPc = "ps_flush"
    /\ disk' = Flushed(disk, buf)
    /\ buf' = << >>
    /\ console' = Append(console, << "Rule", transcript >>)
    /\ mainPc' = "ps_result"
    /\ UNCHANGED << extVars, translateFailed, exc, exitCode, intVars, argVars, is_recording, devVars,
                    audio_queue, cbVars, genVars, rpcVars, curResults, transcript,
                    translation, segment_count, finalsRecv, output_file >>

\* where control goes when process_stream's finally block is over
AfterFinally == IF exc = "KeyboardInterrupt" THEN "main_except" ELSE "stop_flag"

\* the trailer written twice over
WriteTrailer_twice ==
    /\ mainPc = "ps_finally"
    /\ IF output_file # "none"
         THEN /\ buf' = Append(Append(buf, Trailer(segment_count)), Trailer(segment_count))
              /\ mainPc' = "ps_close"
              /\ UNCHANGED exc
         ELSE /\ UNCHANGED buf
              /\ mainPc' = AfterFinally
              /\ exc' = "none"
    /\ UNCHANGED << extVars, exitCode, intVars, argVars, is_recording, devVars,
                    audio_queue, cbVars, genVars, rpcVars, loopVars,
                    output_file, disk >>

\* finally: if self.output_file: the three trailer writes.  On a closed
\* file object the first write raises ValueError, which leaves
\* process_stream and is not caught by __main__.
WriteTrailer ==
    /\ mainPc = "ps_finally"
    /\ CASE output_file = "open" ->
              /\ buf' = Append(buf, Trailer(segment_count))
              /\ mainPc' = "ps_close"
              /\ UNCHANGED exc
         [] output_file = "closed" ->
              /\ UNCHANGED buf
              /\ mainPc' = "stop_flag"
              /\ exc' = "Exception"
         [] OTHER ->
              /\ UNCHANGED buf
              /\ mainPc' = AfterFinally
              /\ exc' = "none"
    /\ UNCHANGED << extVars, exitCode, intVars, argVars, is_recording, devVars,
                    audio_queue, cbVars, genVars, rpcVars, loopVars,
                    output_file, disk >>

\* self.output_file.close(); then return, or re-raise into __main__
CloseLog ==
    /\ mainPc = "ps_close"
    /\ disk' = Flushed(disk, buf)
    /\ buf' = << >>
    /\ output_file' = "closed"
    /\ mainPc' = AfterFinally
    /\ exc' = "none"
    /\ UNCHANGED << extVars, exitCode, intVars, argVars, is_recording, devVars,
                    audio_queue, cbVars, genVars, rpcVars, loopVars >>

\* ------------------------------------------------- main thread: __main__
\* except KeyboardInterrupt: print("Stopping...")
MainExcept ==
    /\ mainPc = "main_except"
    /\ mainPc' = "stop_flag"
    /\ UNCHANGED << extVars, exc, exitCode, intVars, argVars, is_recording, devVars,
                    audio_queue, cbVars, genVars, rpcVars, loopVars, fileVars >>

\* stop_stream: self.is_recording = False
StopFlag ==
    /\ mainPc = "stop_flag"
    /\ is_recording' = FALSE
    /\ mainPc' = "stop_close"
    /\ UNCHANGED << extVars, exc, exitCode, intVars, argVars, devVars, audio_queue,
                    cbVars, genVars, rpcVars, loopVars, fileVars >>

\* stop_stream without the hasattr test: self.stream raises AttributeError
\* when start_stream never stored a stream, and the process ends there
StopClose_nohasattr ==
    /\ mainPc = "stop_close"
    /\ IF stream # "none"
         THEN /\ cbPc = "idle"
              /\ stream' = "closed"
              /\ mainPc' = "stop_term"
              /\ UNCHANGED << exc, exitCode >>
         ELSE /\ UNCHANGED stream
              /\ mainPc' = "exit"
              /\ exc' = "AttributeError"
              /\ exitCode' = 1
    /\ UNCHANGED << extVars, intVars, argVars, is_recording, terminated,
                    audio_queue, cbVars, genVars, rpcVars, loopVars, fileVars >>

\* stop_stream: if hasattr(self, 'stream'): stop_stream(); close()
\* Stopping the stream waits for a callback in progress to return.
StopClose ==
    /\ mainPc = "stop_close"
    /\ IF stream # "none"
         THEN /\ cbPc = "idle"
              /\ stream' = "closed"
         ELSE UNCHANGED stream
    /\ mainPc' = "stop_term"
    /\ UNCHANGED << extVars, exc, exitCode, intVars, argVars, is_recording, terminated,
                    audio_queue, cbVars, genVars, rpcVars, loopVars, fileVars >>

\* what of the file object's unflushed buffer reaches the file when the
\* interpreter exits with the file still open: all of it, or none of it;
\* the buffer is gone with the process
ExitDisk(flushed) ==
    IF output_file = "open" /\ flushed THEN Flushed(disk, buf) ELSE disk

\* stop_stream: self.audio.terminate(); then print("Done!") and the process
\* ends, with the pending exception (if any) deciding the exit status
StopTerminate ==
    /\ mainPc = "stop_term"
    /\ terminated' = TRUE
    /\ mainPc' = "exit"
    /\ exitCode' = IF exc = "none" THEN 0 ELSE 1
    /\ \E flushed \in BOOLEAN : disk' = ExitDisk(flushed)
    /\ buf' = << >>
    /\ UNCHANGED << extVars, exc, intVars, argVars, is_recording, stream, audio_queue,
                    cbVars, genVars, rpcVars, loopVars, output_file >>

\* ------------------------------------------------------ operator interrupt
InStart == mainPc \in {"start_flag", "start_open"}
\* process_stream before its try statement
BeforeTry == mainPc \in {"ps_open", "ps_header", "ps_hflush"}
\* process_stream's try body, translate_text included
InTry == mainPc \in {"ps_call", "ps_next", "ps_result", "ps_translate",
                     "ps_write", "ps_flush"}
\* process_stream's finally block
InFinally == mainPc \in {"ps_finally", "ps_close"}
\* __main__'s finally block (stop_stream)
InMainFinally == mainPc \in {"stop_flag", "stop_close", "stop_term"}

\* transcripts of the final results delivered or in delivery that the for
\* loops have not reached yet
FinalsOf(results) ==
    { results[i].transcript : i \in { j \in DOMAIN results : results[j].is_final } }
InFlightFinals ==
    FinalsOf(curResults) \cup UNION { FinalsOf(responses[i]) : i \in DOMAIN responses }

\* KeyboardInterrupt is raised in the main thread at its current position.
\* It is a BaseException: "except Exception" in process_stream and in
\* translate_text does not catch it, "except KeyboardInterrupt" in __main__
\* does, and a finally block it interrupts is abandoned.
Interrupt ==
    /\ Running
    /\ interrupts < MaxInterrupts
    /\ interrupts' = interrupts + 1
    /\ \/ /\ InStart \/ BeforeTry \/ InFinally
          /\ mainPc' = "main_except"
          /\ exc' = "none"
          /\ UNCHANGED << exitCode, disk, buf, atInterrupt >>
       \/ /\ InTry
          /\ mainPc' = "ps_finally"
          /\ exc' = "KeyboardInterrupt"
          /\ atInterrupt' = InFlightFinals
          /\ UNCHANGED << exitCode, disk, buf >>
       \/ /\ mainPc = "main_except"
          /\ mainPc' = "stop_flag"
          /\ exc' = "KeyboardInterrupt"
          /\ UNCHANGED << exitCode, disk, buf, atInterrupt >>
       \/ /\ InMainFinally
          /\ mainPc' = "exit"
          /\ exc' = "KeyboardInterrupt"
          /\ exitCode' = 1
          /\ \E flushed \in BOOLEAN : disk' = ExitDisk(flushed)
          /\ buf' = << >>
          /\ UNCHANGED atInterrupt
    /\ UNCHANGED << extVars, argVars, is_recording, devVars, audio_queue, cbVars, genVars,
                    rpcVars, loopVars, output_file >>

\* ----------------------------------------------- callback thread
\* a callback that clears the active flag itself
CallbackCheck_clears ==
    /\ Running
    /\ stream = "open"
    /\ cbPc = "idle"
    /\ captured < MaxFrames
    /\ captured' = captured + 1
    /\ cbPc' = IF is_recording THEN "put" ELSE "idle"
    /\ is_recording' = FALSE
    /\ UNCHANGED << extVars, mainVars, intVars, argVars, devVars,
                    audio_queue, enqueued, genVars, rpcVars, loopVars, fileVars >>

\* _audio_callback: if self.is_recording
CallbackCheck ==
    /\ Running
    /\ stream = "open"
    /\ cbPc = "idle"
    /\ captured < MaxFrames
    /\ captured' = captured + 1
    /\ cbPc' = IF is_recording THEN "put" ELSE "idle"
    /\ UNCHANGED << extVars, mainVars, intVars, argVars, is_recording, devVars,
                    audio_queue, enqueued, genVars, rpcVars, loopVars, fileVars >>

\* a put that places the frame on the queue twice
Put_twice(q, frame) == Append(Append(q, frame), frame)

\* queue.Queue.put on the unbounded queue
Put(q, frame) == Append(q, frame)

\* put on a queue of capacity one: it waits while the queue is full
CallbackPut_bounded ==
    /\ Running
    /\ cbPc = "put"
    /\ Len(audio_queue) < 1
    /\ audio_queue' = Put(audio_queue, captured)
    /\ enqueued' = Append(enqueued, captured)
    /\ cbPc' = "idle"
    /\ UNCHANGED << extVars, mainVars, intVars, argVars, is_recording, devVars,
                    captured, genVars, rpcVars, loopVars, fileVars >>

\* _audio_callback: self.audio_queue.put(in_data); return
CallbackPut ==
    /\ Running
    /\ cbPc = "put"
    /\ audio_queue' = Put(audio_queue, captured)
    /\ enqueued' = Append(enqueued, captured)
    /\ cbPc' = "idle"
    /\ UNCHANGED << extVars, mainVars, intVars, argVars, is_recording, devVars,
                    captured, genVars, rpcVars, loopVars, fileVars >>

\* ----------------------------------------------- sender thread
\* the RPC library pulls requests while the call is alive
Pulling == Running /\ rpc = "open" /\ rpcEnd = "none"

\* the loop condition ignored: the generator returns at its first check
GeneratorCheck_ends ==
    /\ Pulling
    /\ genPc = "check"
    /\ genPc' = "done"
    /\ UNCHANGED << extVars, mainVars, intVars, argVars, is_recording, devVars,
                    audio_queue, cbVars, yielded, silence, rpcVars, loopVars, fileVars >>

\* a loop that goes on until the queue is drained
GeneratorCheck_drains ==
    /\ Pulling
    /\ genPc = "check"
    /\ genPc' = IF is_recording \/ audio_queue # << >> THEN "get" ELSE "done"
    /\ UNCHANGED << extVars, mainVars, intVars, argVars, is_recording, devVars,
                    audio_queue, cbVars, yielded, silence, rpcVars, loopVars, fileVars >>

\* audio_generator: while self.is_recording
GeneratorCheck ==
    /\ Pulling
    /\ genPc = "check"
    /\ genPc' = IF is_recording THEN "get" ELSE "done"
    /\ UNCHANGED << extVars, mainVars, intVars, argVars, is_recording, devVars,
                    audio_queue, cbVars, yielded, silence, rpcVars, loopVars, fileVars >>

\* the newest item handed out instead of the oldest
GetItem_newest(q) == q[Len(q)]

\* queue.Queue.get: the oldest item, and the queue without it
GetItem(q) == Head(q)
GetRest(q) == Tail(q)

\* audio_generator: chunk = self.audio_queue.get(timeout=1); yield chunk
GeneratorGet ==
    /\ Pulling
    /\ genPc = "get"
    /\ audio_queue # << >>
    /\ yielded' = Append(yielded, GetItem(audio_queue))
    /\ audio_queue' = GetRest(audio_queue)
    /\ silence' = IF silence = "timeout" THEN "resumed" ELSE silence
    /\ genPc' = "check"
    /\ UNCHANGED << extVars, mainVars, intVars, argVars, is_recording, devVars,
                    cbVars, rpcVars, loopVars, fileVars >>

\* a timeout ending the generator (break instead of continue)
GeneratorTimeout_ends ==
    /\ Pulling
    /\ genPc = "get"
    /\ audio_queue = << >>
    /\ genPc' = "done"
    /\ silence' = IF silence = "none" THEN "timeout" ELSE silence
    /\ UNCHANGED << extVars, mainVars, intVars, argVars, is_recording, devVars,
                    audio_queue, cbVars, yielded, rpcVars, loopVars, fileVars >>

\* audio_generator: except queue.Empty: continue
GeneratorTimeout ==
    /\ Pulling
    /\ genPc = "get"
    /\ audio_queue = << >>
    /\ genPc' = "check"
    /\ silence' = IF silence = "none" THEN "timeout" ELSE silence
    /\ UNCHANGED << extVars, mainVars, intVars, argVars, is_recording, devVars,
                    audio_queue, cbVars, yielded, rpcVars, loopVars, fileVars >>

\* ----------------------------------------------- remote recognizer
\* one result: {alternatives: [{transcript}], is_final}; transcripts are
\* numbered in emission order
Result(k, final) == [transcript |-> k, is_final |-> final]

\* the recognizer pushes one response carrying 1..MaxResults results
RecognizerRespond ==
    /\ Pulling
    /\ yielded # << >>
    /\ \E n \in 1..MaxResults :
         /\ emitted + n <= MaxEvents
         /\ \E finals \in [1..n -> BOOLEAN] :
              responses' = Append(responses,
                                  [i \in 1..n |-> Result(emitted + i, finals[i])])
         /\ emitted' = emitted + n
    /\ UNCHANGED << extVars, mainVars, intVars, argVars, is_recording, devVars,
                    audio_queue, cbVars, genVars, rpc, rpcEnd, loopVars, fileVars >>

\* the call fails (network failure, quota, stream duration limit)
RecognizerFails ==
    /\ Pulling
    /\ rpcEnd' = "error"
    /\ UNCHANGED << extVars, mainVars, intVars, argVars, is_recording, devVars,
                    audio_queue, cbVars, genVars, rpc, responses, emitted,
                    loopVars, fileVars >>

\* the sender has closed its direction (request_generator is exhausted) and
\* the recognizer completes the call cleanly
RecognizerCloses ==
    /\ Pulling
    /\ genPc = "done"
    /\ rpcEnd' = "closed"
    /\ UNCHANGED << extVars, mainVars, intVars, argVars, is_recording, devVars,
                    audio_queue, cbVars, genVars, rpc, responses, emitted,
                    loopVars, fileVars >>

Next ==
    \/ StartFlag \/ StartOpen \/ StartOpenFails
    \/ OpenLog \/ WriteHeader \/ FlushHeader \/ StreamingRecognize
    \/ NextResponse \/ ResponsesRaise \/ EndOfResults \/ FinalResult
    \/ InterimResult \/ Translate \/ WriteSegment \/ FlushSegment
    \/ WriteTrailer \/ CloseLog
    \/ MainExcept \/ StopFlag \/ StopClose \/ StopTerminate
    \/ Interrupt
    \/ CallbackCheck \/ CallbackPut
    \/ GeneratorCheck \/ GeneratorGet \/ GeneratorTimeout
    \/ RecognizerRespond \/ RecognizerFails \/ RecognizerCloses

Spec == Init /\ [][Next]_vars

\* the steps of the main thread's own code
MainStep ==
    \/ StartFlag \/ StartOpen \/ StartOpenFails
    \/ OpenLog \/ WriteHeader \/ FlushHeader \/ StreamingRecognize
    \/ NextResponse \/ ResponsesRaise \/ EndOfResults \/ FinalResult
    \/ InterimResult \/ Translate \/ WriteSegment \/ FlushSegment
    \/ WriteTrailer \/ CloseLog
    \/ MainExcept \/ StopFlag \/ StopClose \/ StopTerminate

\* The main thread keeps running while it has a step to take, and a callback
\* that has reached its put completes it (the put never waits).
FairSpec == Spec /\ WF_vars(MainStep) /\ WF_vars(CallbackPut)

\* the steps of audio_generator, taken on the RPC library's thread
SenderStep == GeneratorCheck \/ GeneratorGet \/ GeneratorTimeout

\* ... and the library keeps pulling the request generator while the call
\* is alive.
FairSenderSpec == FairSpec /\ WF_vars(SenderStep)

\* ------------------------- process_stream called again on the same object
\* A caller other than __main__ calls translator.process_stream a further
\* time after a call returned, with arguments of its choice.  The object
\* keeps self.output_file; the locals and the response stream are new.
CallAgain ==
    /\ mainPc = "stop_flag"
    /\ exc = "none"
    /\ rpc = "open"
    /\ calls + 1 < MaxCalls
    /\ calls' = calls + 1
    /\ translate_enabled' \in BOOLEAN
    /\ save_to_file' \in BOOLEAN
    /\ mainPc' = "ps_open"
    /\ rpc' = "none"
    /\ rpcEnd' = "none"
    /\ responses' = << >>
    /\ curResults' = << >>
    /\ genPc' = "idle"
    /\ UNCHANGED << ctorVars, srvVars, exc, exitCode, intVars, is_recording, devVars,
                    audio_queue, cbVars, yielded, silence, emitted, transcript,
                    translation, segment_count, finalsRecv, console,
                    translateFailed, fileVars >>

ReuseNext == Next \/ CallAgain

ReuseSpec == Init /\ [][ReuseNext]_vars

\* ------------------------------------------- AudioStreamer.__init__
DeviceNames == {"USB", "Focusrite", "other"}
DeviceLists == UNION { [1..n -> DeviceNames] : n \in 0..MaxDevices }

\* Python truth value of a device index argument: None and 0 are false
Truthy(x) == x # None /\ x # Index(0)

\* "USB" in info['name'] or "Focusrite" in info['name']
IsUsbName(name) == name \in {"USB", "Focusrite"}

\* _find_usb_device: the first (0-based) index with a matching name, else None
FindUsbDevice(devs) ==
    IF \E i \in DOMAIN devs : IsUsbName(devs[i])
      THEN Index((CHOOSE i \in DOMAIN devs :
                    /\ IsUsbName(devs[i])
                    /\ \A j \in DOMAIN devs : IsUsbName(devs[j]) => i <= j) - 1)
      ELSE None

\* a caller constructs AudioStreamer(device_index=device_arg) on some machine
CtorInit ==
    /\ PipeStart
    /\ translate_enabled = TRUE
    /\ save_to_file = TRUE
    /\ SrvIdle
    /\ device_arg \in {None} \cup { Index(i) : i \in 0..(MaxDevices - 1) }
    /\ devices \in DeviceLists
    /\ device_index = None
    /\ searched = FALSE
    /\ ctorPc = "or"

\* self.device_index = device_index or ...: the left operand
CtorOr ==
    /\ ctorPc = "or"
    /\ IF Truthy(device_arg)
         THEN /\ device_index' = device_arg
              /\ ctorPc' = "done"
         ELSE /\ UNCHANGED device_index
              /\ ctorPc' = "search"
    /\ UNCHANGED << pipeVars, calls, srvVars, device_arg, devices, searched >>

\* ... or self._find_usb_device()
CtorSearch ==
    /\ ctorPc = "search"
    /\ device_index' = FindUsbDevice(devices)
    /\ searched' = TRUE
    /\ ctorPc' = "done"
    /\ UNCHANGED << pipeVars, calls, srvVars, device_arg, devices >>

CtorNext == CtorOr \/ CtorSearch

CtorSpec == CtorInit /\ [][CtorNext]_vars

\* --------------------------------------------------------------- server.js
\* The routes of the book inventory server on one book.  Each await of a
\* handler is one step: the database serves one operation at a time, and
\* handlers of different requests interleave between their awaits.
\* what the steps of the server leave alone
notSrv == << pipeVars, calls, ctorVars >>

Kinds == {"checkout", "loan", "return", "delete"}
\* req.body.checkoutDate of PUT /api/books/:id/checkout: a date (with or
\* without checkedOutBy), null, or no such field
Bodies == {"date", "date_anon", "null", "missing"}
HasDate(b) == b \in {"date", "date_anon"}

InProgress(r) == req[r].pc \notin {"idle", "done"}
Quiescent == \A r \in Reqs : ~ InProgress(r)
Answered(r, code) == [req[r] EXCEPT !.pc = "done", !.code = code]
At(r, kind, pc) == req[r].kind = kind /\ req[r].pc = pc
Goto(r, pc) == req' = [req EXCEPT ![r].pc = pc]
Answer(r, code) == req' = [req EXCEPT ![r] = Answered(r, code)]

OnLoan == \E i \in DOMAIN loans : loans[i] = "Loaned"
OpenCheckouts == { i \in DOMAIN checkouts : checkouts[i] = "open" }
\* the Checkout that findOneAndUpdate picks: the latest open one
LatestOpen == CHOOSE i \in OpenCheckouts : \A j \in OpenCheckouts : j <= i

\* the transaction of DELETE q has deleted the book and not yet ended
HoldsBook(q) ==
    req[q].kind = "delete" /\ req[q].pc \in {"del_loans", "del_checkouts", "del_commit"}
\* ... has deleted loan i / checkout i
HoldsLoan(q, i) ==
    req[q].kind = "delete" /\ req[q].pc \in {"del_checkouts", "del_commit"} /\ i <= req[q].nl
HoldsCheckout(q, i) ==
    req[q].kind = "delete" /\ req[q].pc = "del_commit" /\ i <= req[q].nc
\* ... has its snapshot and is still to delete loan i / checkout i: a write
\* to that document by another request makes the transaction's delete fail
ToDeleteLoan(q, i) ==
    req[q].kind = "delete" /\ req[q].pc = "del_loans" /\ i <= req[q].nl
ToDeleteCheckout(q, i) ==
    req[q].kind = "delete" /\ req[q].pc \in {"del_loans", "del_checkouts"} /\ i <= req[q].nc

\* a request arrives; requests take the slots in arrival order
StartRequest(r) ==
    /\ req[r].pc = "idle"
    /\ \A q \in Reqs : q < r => req[q].pc # "idle"
    /\ \E kind \in Kinds, body \in Bodies, id \in Reqs :
         /\ kind = "checkout" \/ body = "null"
         /\ kind = "return" \/ id = 1
         /\ req' = [req EXCEPT ![r] = [NoRequest EXCEPT !.kind = kind, !.pc = "start",
                                                        !.body = body, !.id = id]]
    /\ overlap' = (overlap \/ \E q \in Reqs : InProgress(q))
    /\ UNCHANGED << book, loans, checkouts >>
    /\ UNCHANGED notSrv

\* PUT checkout: Book.findById, then isCheckingOut / isReturning
CoFindBook(r) ==
    /\ At(r, "checkout", "start")
    /\ IF ~ book.exists
         THEN Answer(r, 404)
         ELSE IF HasDate(req[r].body) /\ book.checkoutDate # "date"
                THEN Goto(r, "co_findloan")
                ELSE IF req[r].body = "null" /\ book.checkoutDate = "date"
                       THEN Goto(r, "co_return")
                       ELSE Goto(r, "co_save")
    /\ UNCHANGED << book, loans, checkouts, overlap >>
    /\ UNCHANGED notSrv

\* PUT checkout: Loan.findOne({status: 'Loaned'})
CoFindLoan(r) ==
    /\ At(r, "checkout", "co_findloan")
    /\ IF OnLoan THEN Answer(r, 409) ELSE Goto(r, "co_create")
    /\ UNCHANGED << book, loans, checkouts, overlap >>
    /\ UNCHANGED notSrv

\* PUT checkout: Checkout.create; checkedOutBy is required
CoCreate(r) ==
    /\ At(r, "checkout", "co_create")
    /\ IF req[r].body = "date_anon"
         THEN /\ Answer(r, 500)
              /\ UNCHANGED checkouts
         ELSE /\ Goto(r, "co_save")
              /\ checkouts' = Append(checkouts, "open")
    /\ UNCHANGED << book, loans, overlap >>
    /\ UNCHANGED notSrv

\* PUT checkout: Checkout.findOneAndUpdate({returnDate: null}, ...)
CoReturn(r) ==
    /\ At(r, "checkout", "co_return")
    /\ IF OpenCheckouts = {}
         THEN /\ Goto(r, "co_save")
              /\ UNCHANGED checkouts
         ELSE /\ \A q \in Reqs : ~ HoldsCheckout(q, LatestOpen)
              /\ checkouts' = [checkouts EXCEPT ![LatestOpen] = "closed"]
              /\ req' = [q \in Reqs |->
                          IF q = r THEN [req[r] EXCEPT !.pc = "co_save"]
                          ELSE IF ToDeleteCheckout(q, LatestOpen)
                                 THEN [req[q] EXCEPT !.cc = TRUE]
                                 ELSE req[q]]
    /\ UNCHANGED << book, loans, overlap >>
    /\ UNCHANGED notSrv

\* the value book.save() stores for req.body.checkoutDate; undefined
\* unsets the field
Stored(b) == IF HasDate(b) THEN "date" ELSE IF b = "null" THEN "null" ELSE "unset"

\* PUT checkout: book.checkoutDate = req.body.checkoutDate; book.save()
CoSave(r) ==
    /\ At(r, "checkout", "co_save")
    /\ \A q \in Reqs : ~ HoldsBook(q)
    /\ IF book.exists
         THEN /\ book' = [book EXCEPT !.checkoutDate = Stored(req[r].body)]
              /\ Answer(r, 200)
         ELSE /\ UNCHANGED book
              /\ Answer(r, 500)
    /\ UNCHANGED << loans, checkouts, overlap >>
    /\ UNCHANGED notSrv

\* POST /api/loans: Book.findById and the checkoutDate test
LoFindBook(r) ==
    /\ At(r, "loan", "start")
    /\ IF ~ book.exists
         THEN Answer(r, 404)
         ELSE IF book.checkoutDate = "date"
                THEN Answer(r, 409)
                ELSE Goto(r, "lo_findloan")
    /\ UNCHANGED << book, loans, checkouts, overlap >>
    /\ UNCHANGED notSrv

\* POST /api/loans: Loan.findOne({status: 'Loaned'})
LoFindLoan(r) ==
    /\ At(r, "loan", "lo_findloan")
    /\ IF OnLoan THEN Answer(r, 409) ELSE Goto(r, "lo_save")
    /\ UNCHANGED << book, loans, checkouts, overlap >>
    /\ UNCHANGED notSrv

\* POST /api/loans: newLoan.save(), status 'Loaned' by default
LoSave(r) ==
    /\ At(r, "loan", "lo_save")
    /\ loans' = Append(loans, "Loaned")
    /\ Answer(r, 201)
    /\ UNCHANGED << book, checkouts, overlap >>
    /\ UNCHANGED notSrv

\* PUT /api/loans/:id/return: Loan.findByIdAndUpdate(id, {status: 'Returned'})
LoanReturn(r) ==
    /\ At(r, "return", "start")
    /\ LET i == req[r].id IN
         IF i \in DOMAIN loans /\ loans[i] # "Deleted"
           THEN /\ \A q \in Reqs : ~ HoldsLoan(q, i)
                /\ loans' = [loans EXCEPT ![i] = "Returned"]
                /\ req' = [q \in Reqs |->
                            IF q = r THEN Answered(r, 200)
                            ELSE IF ToDeleteLoan(q, i)
                                   THEN [req[q] EXCEPT !.cl = TRUE]
                                   ELSE req[q]]
           ELSE /\ UNCHANGED loans
                /\ Answer(r, 404)
    /\ UNCHANGED << book, checkouts, overlap >>
    /\ UNCHANGED notSrv

\* DELETE: startTransaction; Book.findByIdAndDelete(bookId, {session}).
\* The transaction reads the collections as they are at this operation.
DelFind(r) ==
    /\ At(r, "delete", "start")
    /\ IF ~ book.exists
         THEN Answer(r, 404)
         ELSE IF \E q \in Reqs : HoldsBook(q)
                THEN Answer(r, 500)
                ELSE req' = [req EXCEPT ![r].pc = "del_loans",
                                        ![r].nl = Len(loans),
                                        ![r].nc = Len(checkouts)]
    /\ UNCHANGED << book, loans, checkouts, overlap >>
    /\ UNCHANGED notSrv

\* DELETE: Loan.deleteMany({book}, {session})
DelLoans(r) ==
    /\ At(r, "delete", "del_loans")
    /\ IF req[r].cl THEN Answer(r, 500) ELSE Goto(r, "del_checkouts")
    /\ UNCHANGED << book, loans, checkouts, overlap >>
    /\ UNCHANGED notSrv

\* DELETE: Checkout.deleteMany({book}, {session})
DelCheckouts(r) ==
    /\ At(r, "delete", "del_checkouts")
    /\ IF req[r].cc THEN Answer(r, 500) ELSE Goto(r, "del_commit")
    /\ UNCHANGED << book, loans, checkouts, overlap >>
    /\ UNCHANGED notSrv

\* DELETE: commitTransaction: the deletes become visible together
DelCommit(r) ==
    /\ At(r, "delete", "del_commit")
    /\ book' = [book EXCEPT !.exists = FALSE]
    /\ loans' = [i \in DOMAIN loans |-> IF i <= req[r].nl THEN "Deleted" ELSE loans[i]]
    /\ checkouts' = [i \in DOMAIN checkouts |->
                       IF i <= req[r].nc THEN "deleted" ELSE checkouts[i]]
    /\ Answer(r, 200)
    /\ UNCHANGED overlap
    /\ UNCHANGED notSrv

\* DELETE: startSession / startTransaction or the first operation throws
\* (a server without transactions): catch, 500
DeleteFails(r) ==
    /\ At(r, "delete", "start")
    /\ Answer(r, 500)
    /\ UNCHANGED << book, loans, checkouts, overlap >>
    /\ UNCHANGED notSrv

SrvNext ==
    \/ \E r \in Reqs : StartRequest(r)
    \/ \E r \in Reqs : CoFindBook(r)
    \/ \E r \in Reqs : CoFindLoan(r)
    \/ \E r \in Reqs : CoCreate(r)
    \/ \E r \in Reqs : CoReturn(r)
    \/ \E r \in Reqs : CoSave(r)
    \/ \E r \in Reqs : LoFindBook(r)
    \/ \E r \in Reqs : LoFindLoan(r)
    \/ \E r \in Reqs : LoSave(r)
    \/ \E r \in Reqs : LoanReturn(r)
    \/ \E r \in Reqs : DelFind(r)
    \/ \E r \in Reqs : DelLoans(r)
    \/ \E r \in Reqs : DelCheckouts(r)
    \/ \E r \in Reqs : DelCommit(r)
    \/ \E r \in Reqs : DeleteFails(r)

SrvInit ==
    /\ PipeStart
    /\ translate_enabled = TRUE
    /\ save_to_file = TRUE
    /\ CtorDone
    /\ SrvIdle

ServerSpec == SrvInit /\ [][SrvNext]_vars

\* ------------------------------------------------------ reading the log
\* everything written to the log so far, flushed or not
Log == disk \o buf
IsEntry(e) == e.kind \in {"segment", "plain"}
IsSegment(e) == e.kind = "segment"
IsTrailer(e) == e.kind = "trailer"
\* the segment entries of a log, in file order
Entries(log) == SelectSeq(log, IsEntry)
IsRule(line) == line[1] = "Rule"
\* transcripts of the segments whose commit ran to its end (the closing
\* print("-" * 60) after the flush), in order
Acked == SelectSeq(console, IsRule)
Range(seq) == { seq[i] : i \in DOMAIN seq }

\* ------------------------------------------------------------------ C1
\* C1: the k-th final result received by process_stream gets sequence number
\* k: segment_count always equals the number of final results received so
\* far, and the k-th "Segment n" entry written to the log carries n = k and
\* the transcript of the k-th final result.
C1_SegmentNumbering ==
    /\ segment_count = Len(finalsRecv)
    /\ \A k \in DOMAIN Entries(Log) :
         /\ k <= Len(finalsRecv)
         /\ Entries(Log)[k].original = finalsRecv[k]
         /\ IsSegment(Entries(Log)[k]) => Entries(Log)[k].n = k

\* two final results were committed and numbered
C1_Witness ==
    /\ translate_enabled
    /\ Len(Entries(disk)) >= 2
    /\ Entries(disk)[2].n = 2

\* ------------------------------------------------------------------ C2
\* C2: the frames audio_generator has yielded, followed by the frames still
\* queued, are exactly the frames the callback enqueued, in capture order:
\* nothing is duplicated, lost or reordered, and once the consumer has caught
\* up (empty queue) the yielded sequence is the enqueued sequence.
C2_FrameOrder ==
    /\ yielded \o audio_queue = enqueued
    /\ \A i, j \in DOMAIN enqueued : i < j => enqueued[i] < enqueued[j]

\* two frames went through the queue and the consumer has caught up
C2_Witness ==
    /\ Len(yielded) >= 2
    /\ audio_queue = << >>
    /\ yielded = enqueued

\* ------------------------------------------------------------------ C3
\* C3 (as claimed): whenever a trailer is in the log, its "Total segments"
\* equals the number of segment entries written before it.
C3_TrailerCountMatches ==
    \A i \in DOMAIN Log :
        IsTrailer(Log[i]) => Log[i].n = Len(Entries(SubSeq(Log, 1, i - 1)))

\* ------------------------------------------------------------------ C4
\* C4: once the append of a segment has returned (writes, flush, closing
\* print), the segment's entry is in the file's persisted content, in commit
\* order, and stays there: also while the log is still open and after the
\* process has been interrupted.
C4_Durability ==
    save_to_file =>
        /\ Len(Entries(disk)) >= Len(Acked)
        /\ \A k \in DOMAIN Acked : Entries(disk)[k].original = Acked[k][2]

\* a segment was committed, then the operator interrupted, and the process
\* is over: the entry is in the file
C4_Witness ==
    /\ save_to_file
    /\ Len(Acked) >= 1
    /\ interrupts >= 1
    /\ mainPc = "exit"

\* ------------------------------------------------------------------ C5
\* C5: a translation failure does not end the session. The step that leaves
\* translate_text without an operator interrupt goes on to the log write of
\* the same segment, with the counter already incremented for it, whatever
\* the translator answered; and every final result received, also one after a
\* failed translation, is counted with the next number and committed in turn.
C5_TranslationIsolation ==
    [][ /\ (mainPc = "ps_translate" /\ mainPc' # "ps_translate"
               /\ interrupts' = interrupts)
           => /\ mainPc' = "ps_write"
              /\ segment_count' = segment_count
              /\ segment_count = Len(finalsRecv)
              /\ finalsRecv[segment_count] = transcript
        /\ (finalsRecv' # finalsRecv)
           => /\ segment_count' = segment_count + 1
              /\ mainPc' \in {"ps_translate", "ps_write"} ]_vars

\* segment k failed to translate and segment k+1 is in the file after it
C5_Witness ==
    \E k \in DOMAIN Entries(disk) :
        /\ Entries(disk)[k].original \in translateFailed
        /\ k + 1 \in DOMAIN Entries(disk)
        /\ Entries(disk)[k + 1].n = k + 1

\* ------------------------------------------------------------------ C6
\* C6: a segment whose translation failed is still written to the log once
\* its commit has run, and its translation field is the error marker, never
\* absent or empty.
C6_ErrorMarkerLogged ==
    (translate_enabled /\ save_to_file) =>
        \A k \in DOMAIN Acked :
            Acked[k][2] \in translateFailed =>
                /\ IsSegment(Entries(disk)[k])
                /\ Entries(disk)[k].original = Acked[k][2]
                /\ Entries(disk)[k].translation = TranslationError(Acked[k][2])
                /\ Entries(disk)[k].translation # NoText

\* a failed translation's segment is in the file with the marker
C6_Witness ==
    \E k \in DOMAIN Entries(disk) :
        /\ Entries(disk)[k].original \in translateFailed
        /\ Entries(disk)[k].translation[1] = "[Translation error"

\* ------------------------------------------------------------------ C7
\* C7 (as claimed): after an operator interrupt the trailer is written only
\* once capture has been stopped: no trailer is in the log while the active
\* flag is still set.
C7_TrailerAfterCaptureStopped ==
    (interrupts > 0 /\ \E i \in DOMAIN Log : IsTrailer(Log[i])) => ~ is_recording

\* ------------------------------------------------------------------ C8
\* C8 (as claimed): audio_generator ends only with the active flag false and
\* the frame queue empty.
C8_EndsOnlyWhenDrained ==
    [][ (genPc # "done" /\ genPc' = "done")
        => (~ is_recording /\ audio_queue = << >>) ]_vars

\* ------------------------------------------------------------------ C9
\* C9 (as claimed): every final result that was in flight when the operator
\* interrupted the loop has its entry in the log by the time the trailer is
\* written.
C9_InFlightFinalsCommitted ==
    \A i \in DOMAIN Log :
        IsTrailer(Log[i]) =>
            \A t \in atInterrupt :
                \E k \in 1..(i - 1) : IsEntry(Log[k]) /\ Log[k].original = t

\* ------------------------------------------------------------------ C10
\* C10 (as claimed): once the capture source has been started, the program
\* never ends with the device handle still open.
C10_DeviceReleasedAtExit ==
    mainPc = "exit" => stream # "open"

\* ------------------------------------------------------------------ C11
\* C11 (as claimed): when the shutdown logic has run to its end (stop_stream
\* finished, the process is over) and a log file was opened, the log has
\* been closed and its trailer is in the file.
C11_OpenedLogGetsTrailer ==
    (mainPc = "exit" /\ terminated /\ output_file # "none") =>
        /\ output_file = "closed"
        /\ \E i \in DOMAIN disk : IsTrailer(disk[i])

\* ------------------------------------------------------------------ C12
\* C12 (as claimed): with a log open, every final result received has
\* produced exactly one segment, counter increment and log entry alike: once
\* the main thread is no longer between the increment and the end of the
\* entry's write, the log holds as many entries as finals were received and
\* the counter says the same.
InCommit == mainPc \in {"ps_translate", "ps_write", "ps_flush"}
C12_OneSegmentPerFinal ==
    (output_file # "none" /\ ~ InCommit) =>
        /\ segment_count = Len(finalsRecv)
        /\ Len(Entries(Log)) = Len(finalsRecv)

\* ------------------------------------------------------------------ C13
\* C13: the step that handles an interim result changes neither the segment
\* counter nor the log (written or flushed) nor the file handle, does not
\* go to the translator, and prints nothing that is recorded for a final
\* result: the loop just moves on to the next result.
C13_InterimLeavesNoTrace ==
    [][ (/\ mainPc = "ps_result"
         /\ curResults # << >>
         /\ ~ Head(curResults).is_final
         /\ curResults' # curResults)
        => /\ segment_count' = segment_count
           /\ finalsRecv' = finalsRecv
           /\ buf' = buf
           /\ disk' = disk
           /\ output_file' = output_file
           /\ translation' = translation
           /\ translateFailed' = translateFailed
           /\ console' = console
           /\ mainPc' = "ps_result" ]_vars

\* result 1 was interim and has been consumed; result 2, final, is the only
\* entry of the log and the only segment counted
C13_Witness ==
    /\ finalsRecv = << 2 >>
    /\ segment_count = 1
    /\ Len(Entries(disk)) = 1
    /\ Entries(disk)[1].original = 2

\* ------------------------------------------------------------------ C14
\* C14: final results are received in the order the recognizer emitted
\* them, and the log's entries are in that same order: the k-th entry is
\* the k-th final result received, so an earlier final's entry precedes a
\* later one's and segment numbers grow along the file, also for several
\* results of one response.
C14_LogOrder ==
    /\ \A i, j \in DOMAIN finalsRecv : i < j => finalsRecv[i] < finalsRecv[j]
    /\ \A k \in DOMAIN Entries(Log) :
         /\ k <= Len(finalsRecv)
         /\ Entries(Log)[k].original = finalsRecv[k]
    /\ \A i, j \in DOMAIN Entries(Log) :
         i < j => /\ Entries(Log)[i].original < Entries(Log)[j].original
                  /\ Entries(Log)[i].n <= Entries(Log)[j].n

\* the first final result of a response is in the file and the next result
\* of the same response, also final, is about to be handled
C14_Witness ==
    /\ mainPc = "ps_result"
    /\ Len(Entries(disk)) = 1
    /\ curResults # << >>
    /\ Head(curResults).is_final
    /\ Entries(disk)[1].original < Head(curResults).transcript

\* ------------------------------------------------------------------ C15
\* C15 (as claimed): whenever the console shows a final result's original
\* text, that segment's entry is already in the file's flushed content.
C15_AckAfterAppend ==
    save_to_file =>
        \A i \in DOMAIN console :
            console[i][1] = "Original" =>
                \E k \in DOMAIN disk :
                    IsEntry(disk[k]) /\ disk[k].original = console[i][2]

\* ------------------------------------------------------------------ C16
\* the main thread has left process_stream's loop
LoopLeft == InFinally \/ InMainFinally \/ mainPc \in {"main_except", "exit"}

\* C16: without an operator interrupt, a recognizer error is caught inside
\* process_stream: the step that takes it leaves no exception pending and
\* touches neither the capture side nor the log; while the finally block
\* runs capture is still up and stop_stream has not begun; by the time
\* stop_stream runs the log is closed with the trailer as its last line;
\* and from the error on the log's entries stay exactly as they were, so
\* every segment appended before the error is in the closed file.
C16_ErrorCaughtAtBoundary ==
    /\ [] ( (interrupts = 0 /\ rpc = "open" /\ LoopLeft) =>
              /\ rpcEnd = "error"
              /\ exc = "none"
              /\ InFinally => (is_recording /\ stream = "open" /\ ~ terminated)
              /\ (save_to_file /\ ~ InFinally) =>
                   /\ output_file = "closed"
                   /\ disk # << >>
                   /\ disk[Len(disk)] = Trailer(segment_count)
                   /\ Len(Entries(disk)) = segment_count )
    /\ [][ (interrupts' = 0 /\ mainPc = "ps_next" /\ mainPc' \notin {"ps_next", "ps_result"})
             => /\ mainPc' = "ps_finally"
                /\ exc' = "none"
                /\ UNCHANGED << is_recording, stream, terminated, audio_queue,
                                cbPc, genPc, disk, buf, segment_count >> ]_vars
    /\ [][ (interrupts' = 0 /\ rpc = "open" /\ LoopLeft)
             => Entries(Log') = Entries(Log) ]_vars

\* the call failed after a segment was logged, nobody interrupted, and the
\* program has ended with the log closed
C16_Witness ==
    /\ rpcEnd = "error"
    /\ interrupts = 0
    /\ mainPc = "exit"
    /\ exitCode = 0
    /\ output_file = "closed"
    /\ Len(Entries(disk)) >= 1

SessionState ==
    IF rpc = "none" THEN "IDLE"
    ELSE IF rpcEnd = "error" THEN "FAILED"
    ELSE IF rpcEnd = "closed" THEN "CLOSED"
    ELSE IF genPc = "done" THEN "CLOSING"
    ELSE "STREAMING"

SessionTransitions ==
    { << "IDLE", "STREAMING" >>, << "STREAMING", "CLOSING" >>,
      << "CLOSING", "CLOSED" >>, << "STREAMING", "FAILED" >>,
      << "CLOSING", "FAILED" >> }

\* C18: every step either leaves the session's state alone or follows one
\* of the five listed transitions (so CLOSED and FAILED are never left), and
\* the session enters CLOSING only when audio_generator has ended because
\* capture was stopped.
C18_SessionStateMachine ==
    [][ /\ SessionState' # SessionState =>
              << SessionState, SessionState' >> \in SessionTransitions
        /\ (SessionState' = "CLOSING" /\ SessionState # "CLOSING") =>
              (~ is_recording /\ genPc' = "done") ]_vars

\* the session has gone the whole clean way: the sender finished and the
\* call completed without an error
C18_Witness ==
    /\ SessionState = "CLOSED"
    /\ genPc = "done"
    /\ ~ is_recording

\* ------------------------------------------------------------------ C19
\* C19: a dequeue that times out sends audio_generator back to its loop
\* test with nothing yielded and nothing taken; the loop test with capture
\* active goes back to the dequeue; the generator ends only at a loop test
\* that finds capture stopped; and every frame enqueued is either already
\* yielded or still on the queue, in order, whatever timeouts came before.
C19_TimeoutRepolls ==
    /\ [][ /\ (genPc = "get" /\ audio_queue = << >> /\ genPc' # genPc) =>
                 /\ genPc' = "check"
                 /\ yielded' = yielded
                 /\ audio_queue' = audio_queue
           /\ (genPc = "check" /\ is_recording /\ genPc' # genPc) => genPc' = "get"
           /\ (genPc' = "done" /\ genPc # "done") =>
                 (genPc = "check" /\ ~ is_recording) ]_vars
    /\ [] (yielded \o audio_queue = enqueued)

\* a frame was yielded after a dequeue had timed out, capture still active
C19_Witness ==
    /\ silence = "resumed"
    /\ is_recording
    /\ genPc # "done"
    /\ yielded # << >>

\* ------------------------------------------------------------------ C20
\* C20: whenever the callback is at its put, the put can be taken at once,
\* whatever the queue holds; and no frame is dropped: every frame put is
\* either on the queue or was handed to the consumer.
C20_PutNeverBlocks ==
    /\ (Running /\ cbPc = "put") => ENABLED CallbackPut
    /\ Len(enqueued) = Len(yielded) + Len(audio_queue)

\* the consumer has taken nothing and the queue holds every frame captured
C20_Witness ==
    /\ Len(audio_queue) = MaxFrames
    /\ yielded = << >>
    /\ cbPc = "idle"

\* ------------------------------------------------------------------ C21
\* frames 1..n in capture order
Frames(n) == [i \in 1..n |-> i]
\* frames whose callback has run to its end
Handled == IF cbPc = "put" THEN captured - 1 ELSE captured

\* C21: while capture is active the frames put on the queue are exactly the
\* frames the callback was given, each once, in capture order and as given;
\* and none is lost from the queue: what was put is what the consumer has
\* taken followed by what still waits, however long the queue has grown.
C21_EveryFrameQueuedOnce ==
    /\ is_recording => enqueued = Frames(Handled)
    /\ yielded \o audio_queue = enqueued

\* the consumer is running and has taken nothing while capture, still
\* active, has queued two frames
C21_Witness ==
    /\ is_recording
    /\ genPc \in {"check", "get"}
    /\ yielded = << >>
    /\ audio_queue = Frames(2)

\* ------------------------------------------------------------------ C22
\* C22 (as claimed): no step puts a frame on the queue once the active flag
\* is false.
C22_NoEnqueueAfterStop ==
    [][ ~ is_recording => enqueued' = enqueued ]_vars

\* ------------------------------------------------------------------ C23
\* C23: with no stream handle stored, stop_stream is not held up and does
\* not fail at the stream test or at the release of the audio subsystem,
\* and a program that ends that way (no interrupt cutting stop_stream short)
\* ends with the active flag false and the audio subsystem released.
C23_StopSafeAfterFailedStart ==
    /\ (mainPc = "stop_close" /\ stream = "none") =>
          (~ is_recording /\ ENABLED StopClose)
    /\ (mainPc = "stop_term" /\ stream = "none") =>
          (~ is_recording /\ ~ terminated /\ ENABLED StopTerminate)
    /\ (mainPc = "exit" /\ stream = "none" /\ exc # "KeyboardInterrupt") =>
          (~ is_recording /\ terminated)

\* opening the device raised and stop_stream has run to its end
C23_Witness ==
    /\ mainPc = "exit"
    /\ exc = "Exception"
    /\ stream = "none"
    /\ terminated
    /\ ~ is_recording

\* ------------------------------------------------------------------ C24
\* C24: while the exception of a failed device open is pending the program
\* is in __main__'s finally block or over, no log was opened and no
\* recognizer call made; and a log is never open or closed without the
\* device having been opened first.
C24_NoLogWithoutCapture ==
    /\ exc = "Exception" =>
          /\ InMainFinally \/ mainPc = "exit"
          /\ stream = "none"
          /\ output_file = "none"
          /\ disk = << >> /\ buf = << >>
          /\ rpc = "none"
    /\ output_file # "none" => stream # "none"

\* the device could not be opened; the program that was to write a log has
\* ended with a failure status and without one
C24_Witness ==
    /\ mainPc = "exit"
    /\ exitCode = 1
    /\ exc = "Exception"
    /\ save_to_file
    /\ output_file = "none"

\* ------------------------------------------------------------------ C25
IsPrefix(a, b) == Len(a) <= Len(b) /\ \A i \in DOMAIN a : a[i] = b[i]

\* header first and only there, entries in the middle, a trailer last if
\* there is one
LogShape(log) ==
    \A i \in DOMAIN log :
        /\ (log[i].kind = "header") <=> (i = 1)
        /\ IsTrailer(log[i]) => i = Len(log)
        /\ (1 < i /\ i < Len(log)) => IsEntry(log[i])

C26_FixedLayout ==
    \A i \in DOMAIN Log :
        IsEntry(Log[i]) =>
            /\ IsSegment(Log[i])
            /\ Log[i].n >= 1
            /\ translate_enabled <=> (Log[i].translation # NoText)

\* ------------------------------------------------------------------ C27
\* process_stream has returned or been left by an exception
ProcessStreamLeft == InMainFinally \/ mainPc \in {"main_except", "exit"}

\* C27: a failed recognizer call leads to process_stream being left; the
\* receive loop is only ever left into the finally block; audio_generator
\* has ended only when process_stream is already over; and once it has
\* ended the program runs to its end.
C27_SessionEnds ==
    /\ (rpcEnd = "error") ~> ProcessStreamLeft
    /\ (genPc = "done") ~> (mainPc = "exit")
    /\ [] (genPc = "done" => ProcessStreamLeft)
    /\ [][ (InTry /\ ~ InTry') => mainPc' = "ps_finally" ]_vars

\* the call failed before any result came; process_stream has returned with
\* capture still active and stop_stream is about to run
C27_Witness ==
    /\ rpcEnd = "error"
    /\ mainPc = "stop_flag"
    /\ interrupts = 0
    /\ is_recording
    /\ emitted = 0

\* ------------------------------------------------------------------ C28
\* C28 (as claimed): a program that ends with the pending exception of a
\* failed device open has a non-zero status, and a program that had opened
\* the device, and so was stopped later, by the operator or otherwise, ends
\* with status 0.
C28_ExitCodes ==
    mainPc = "exit" =>
        /\ exc = "Exception" => exitCode # 0
        /\ stream # "none" => exitCode = 0

\* ------------------------------------------------------------------ C29
\* a step of the main thread moves it on in its code or in the results of
\* the response at hand
MainMoved == mainPc' # mainPc \/ curResults' # curResults
CallbackMoved == cbPc' # cbPc \/ captured' # captured
SenderMoved == genPc # "idle" /\ genPc' # genPc

\* the program's variables other than the queue
MainOwned ==
    << is_recording, stream, terminated, output_file, buf, disk,
       segment_count, transcript, translation >>

\* C29: a step that changes the active flag, the stream handle, the segment
\* counter, the log handle or the log is a step of the main thread and of
\* no other; a step that changes the queue is a step of the callback (a
\* put) or of the sender (a get), never of both and never of the main
\* thread.
C29_SingleWriter ==
    [][ /\ MainOwned' # MainOwned =>
             (MainMoved /\ ~ CallbackMoved /\ ~ SenderMoved)
        /\ audio_queue' # audio_queue =>
             (~ MainMoved /\ (CallbackMoved # SenderMoved))
        /\ Len(audio_queue') > Len(audio_queue) => CallbackMoved
        /\ Len(audio_queue') < Len(audio_queue) => SenderMoved ]_vars

\* the queue has been written from both sides while the main thread counted
\* a segment and holds the log open
C29_Witness ==
    /\ yielded # << >>
    /\ audio_queue # << >>
    /\ segment_count >= 1
    /\ output_file = "open"

\* ------------------------------------------------------------------ C30
\* C30: streaming_recognize is called, and with it audio_generator obtained,
\* only while no generator exists yet; a generator, once it exists, is
\* never replaced, and once ended never runs again; and every frame that
\* leaves the queue is the oldest one, taken by that generator's get and
\* yielded by it.
C30_OneSequencer ==
    [][ /\ (mainPc = "ps_call" /\ mainPc' = "ps_next") =>
             (genPc = "idle" /\ rpc = "none" /\ yielded = << >>)
        /\ genPc # "idle" => genPc' # "idle"
        /\ genPc = "done" => genPc' = "done"
        /\ audio_queue' # audio_queue /\ Len(audio_queue') <= Len(audio_queue) =>
             /\ genPc = "get" /\ genPc' = "check"
             /\ audio_queue # << >>
             /\ yielded' = Append(yielded, Head(audio_queue))
             /\ audio_queue' = Tail(audio_queue) ]_vars

\* the one generator has taken every frame captured and has ended
C30_Witness ==
    /\ genPc = "done"
    /\ Len(yielded) = MaxFrames
    /\ audio_queue = << >>

\* ------------------------------------------------------------------ C31
IsTranslatedLine(line) == line[1] = "Translated"
\* what the translator answered, call by call
TranslatorAnswers == SelectSeq(console, IsTranslatedLine)

\* C31: with translation enabled the k-th call of the translator is for the
\* k-th final result received (so none is translated twice), only the final
\* result being handled can still lack its call, none lacks it once its
\* entry is being written, and every entry in the log carries an answer
\* the translator had given for that entry's transcript; with translation
\* disabled the translator is never called.
C31_TranslateOncePerFinal ==
    /\ translate_enabled =>
         /\ Len(TranslatorAnswers) <= Len(finalsRecv)
         /\ Len(finalsRecv) <= Len(TranslatorAnswers) + 1
         /\ \A k \in DOMAIN TranslatorAnswers :
              TranslatorAnswers[k][2][2] = finalsRecv[k]
         /\ mainPc \in {"ps_next", "ps_result", "ps_write", "ps_flush"} =>
              Len(TranslatorAnswers) = Len(finalsRecv)
         /\ \A i \in DOMAIN Log :
              IsEntry(Log[i]) =>
                 \E k \in DOMAIN TranslatorAnswers :
                    /\ TranslatorAnswers[k][2] = Log[i].translation
                    /\ TranslatorAnswers[k][2][2] = Log[i].original
    /\ ~ translate_enabled =>
         /\ TranslatorAnswers = << >>
         /\ translation = NoText
         /\ translateFailed = {}

\* two final results were translated, one call each, and both entries are
\* in the file
C31_Witness ==
    /\ translate_enabled
    /\ Len(TranslatorAnswers) = 2
    /\ Len(Entries(disk)) = 2

\* ------------------------------------------------------------------ C32
InProcessStream == BeforeTry \/ InTry \/ InFinally

\* C32: while the main thread is inside process_stream the active flag is
\* true, the device open and audio_generator not ended; the flag is cleared
\* only by stop_stream, outside process_stream; the receive loop is left
\* only by an interrupt or by the recognizer's error; and audio_generator
\* ends only when process_stream is over.
C32_StopOnlyAfterProcessStream ==
    /\ [] (InProcessStream =>
             (is_recording /\ stream = "open" /\ ~ terminated /\ genPc # "done"))
    /\ [][ (is_recording /\ ~ is_recording') =>
             (mainPc = "stop_flag" /\ mainPc' = "stop_close") ]_vars
    /\ [][ (InTry /\ ~ InTry') =>
             (interrupts' > interrupts \/ (rpcEnd = "error" /\ responses = << >>)) ]_vars
    /\ [][ (genPc' = "done" /\ genPc # "done") => ProcessStreamLeft ]_vars

\* after an interrupt process_stream is over, stop_stream has cleared the
\* flag and only then has the frame sequence ended, the call still alive
C32_Witness ==
    /\ genPc = "done"
    /\ interrupts = 1
    /\ rpcEnd = "none"
    /\ segment_count >= 1

WritesLog ==
    /\ mainPc \in {"ps_write", "ps_finally"}
    /\ mainPc' # mainPc
    /\ interrupts' = interrupts
    /\ output_file # "none"

\* C34 (as claimed): over any sequence of process_stream calls on one
\* translator, a call writes only to a log it opened itself: it asked for
\* a log (save_to_file) and the handle it writes to is open, never the
\* closed log of an earlier call.
C34_WritesOnlyOwnLog ==
    [][ WritesLog => (save_to_file /\ output_file = "open") ]_vars

\* ------------------------------------------------------------------ C35
\* C35 (as claimed): in every state of every interleaving of POST /api/loans
\* and PUT /api/books/:id/checkout, the book is not both on an active loan
\* (a Loan with status 'Loaned') and checked out (Book.checkoutDate set).
C35_NotLoanedAndCheckedOut ==
    ~ (book.exists /\ book.checkoutDate = "date" /\ OnLoan)

\* ------------------------------------------------------------------ C36
\* C36 (as claimed): in every state of every interleaving of POST /api/loans
\* and PUT /api/loans/:id/return, at most one Loan of the book has status
\* 'Loaned'.
C36_AtMostOneActiveLoan ==
    Cardinality({ i \in DOMAIN loans : loans[i] = "Loaned" }) <= 1

\* ------------------------------------------------------------------ C37
\* only PUT checkout requests have arrived, one after the other, and all
\* have been answered
CheckoutsOnly ==
    /\ Quiescent
    /\ ~ overlap
    /\ \A r \in Reqs : req[r].kind \in {"none", "checkout"}

\* C37 (as claimed): after any sequence of PUT checkout requests, whatever
\* their bodies (a date, null, or no checkoutDate field), Book.checkoutDate
\* is set exactly when the book has an open Checkout record.
C37_CheckoutDateIffOpenCheckout ==
    CheckoutsOnly => (book.checkoutDate = "date" <=> OpenCheckouts # {})

\* ------------------------------------------------------------------ C38
\* the book and every Loan and Checkout of it are gone
AllDeleted ==
    /\ ~ book.exists
    /\ \A i \in DOMAIN loans : loans[i] = "Deleted"
    /\ \A i \in DOMAIN checkouts : checkouts[i] = "deleted"
\* the book is there and no Loan or Checkout of it was deleted
NothingDeleted ==
    /\ book.exists
    /\ \A i \in DOMAIN loans : loans[i] # "Deleted"
    /\ \A i \in DOMAIN checkouts : checkouts[i] # "deleted"

\* C38 (as claimed): once a DELETE /api/books/:id has been answered and the
\* requests that ran alongside it (POST /api/loans, PUT checkout) are
\* over, either the book and all its Loan and Checkout records are gone
\* or nothing was deleted: no Loan or Checkout is left without its book.
C38_DeleteAllOrNothing ==
    (Quiescent /\ \E r \in Reqs : req[r].kind = "delete" /\ req[r].pc = "done") =>
        (AllDeleted \/ NothingDeleted)

\* ------------------------------------------------------------------ C39
\* C39 (as claimed): once AudioStreamer is constructed with an index given,
\* self.device_index is that index and the device search has not run.
C39_ExplicitIndexUsed ==
    (ctorPc = "done" /\ device_arg # None) =>
        (device_index = device_arg /\ ~ searched)

====
